---- MODULE Spec2Model ----
(***************************************************************************)
(* Movement / spatial-navigation core of island_utilsServer.               *)
(*                                                                         *)
(*   src/utils/main.py               the /movement endpoint                *)
(*   src/utils/services/movement.py  MovementService                       *)
(*   src/utils/services/graphdb.py   GraphDB (the store)                   *)
(*   src/utils/services/divide.py    generate_embedding_768                *)
(*                                                                         *)
(* Floats are fixed-point: a number is an integer count of 1/Scale, and    *)
(* the IEEE specials Python's float() accepts ("nan", "inf", "-inf") are   *)
(* kept apart.  Texts are sequences of symbols.                            *)
(***************************************************************************)
EXTENDS Integers, Sequences, FiniteSets, TLC

\* ------------------------------------------------------------------ bounds

\* How many /movement requests may be started in one behaviour.
MaxRequests == 2

\* ------------------------------------------------------------------ floats

Scale == 10^4

Num(v) == [k |-> "num", v |-> v]
NaN == [k |-> "nan", v |-> 0]
PosInf == [k |-> "inf", v |-> 0]
NegInf == [k |-> "ninf", v |-> 0]

\* Python's a < b on floats: every comparison with nan is False.
FLt(a, b) ==
    CASE a.k = "nan" \/ b.k = "nan" -> FALSE
      [] a.k = "num" /\ b.k = "num" -> a.v < b.v
      [] a.k = "ninf" -> b.k # "ninf"
      [] b.k = "inf" -> a.k # "inf"
      [] OTHER -> FALSE

FLe(a, b) ==
    CASE a.k = "nan" \/ b.k = "nan" -> FALSE
      [] OTHER -> ~FLt(b, a)

\* Python's max(a, b): keeps a unless b > a.
PyMax(a, b) == IF FLt(a, b) THEN b ELSE a

\* Python's min(a, b): keeps a unless b < a.
PyMin(a, b) == IF FLt(b, a) THEN b ELSE a

\* a + b; only nan and numbers reach an addition (inf is clamped away first).
FAdd(a, b) ==
    IF a.k = "num" /\ b.k = "num" THEN Num(a.v + b.v)
    ELSE IF a.k = "nan" \/ b.k = "nan" THEN NaN
    ELSE IF a.k = "num" THEN b
    ELSE IF b.k = "num" \/ a.k = b.k THEN a
    ELSE NaN

FNeg(a) ==
    CASE a.k = "num" -> Num(0 - a.v)
      [] a.k = "inf" -> NegInf
      [] a.k = "ninf" -> PosInf
      [] OTHER -> NaN

FSub(a, b) == FAdd(a, FNeg(b))

FAbs(a) ==
    CASE a.k = "num" -> Num(IF a.v < 0 THEN 0 - a.v ELSE a.v)
      [] a.k = "nan" -> NaN
      [] OTHER -> PosInf

\* Nearest integer to n / d, for d > 0.
RoundDiv(n, d) == (2 * n + d) \div (2 * d)

\* a * c / Scale, for a trigonometric factor c given in 1/Scale.
FScale(a, c) ==
    CASE a.k = "num" -> Num(RoundDiv(a.v * c, Scale))
      [] a.k = "nan" -> NaN
      [] c = 0 -> NaN
      [] c > 0 -> a
      [] OTHER -> FNeg(a)

\* ------------------------------------------------------------------- texts

Blank == " "

RECURSIVE LStrip(_)
LStrip(s) ==
    IF s # <<>> /\ Head(s) = Blank THEN LStrip(Tail(s)) ELSE s

RECURSIVE RStrip(_)
RStrip(s) ==
    IF s # <<>> /\ s[Len(s)] = Blank THEN RStrip(SubSeq(s, 1, Len(s) - 1)) ELSE s

\* str.strip()
Strip(s) == RStrip(LStrip(s))

LowerOf(c) ==
    CASE c = "A" -> "a"
      [] c = "B" -> "b"
      [] c = "C" -> "c"
      [] OTHER -> c

\* Cypher's toLower
ToLower(s) == [i \in 1..Len(s) |-> LowerOf(s[i])]

\* Cypher's CONTAINS: sub occurs in s as a contiguous run.
Contains(s, sub) ==
    \E i \in 0..(Len(s) - Len(sub)) : SubSeq(s, i + 1, i + Len(sub)) = sub

\* str.split(sep) for a one-symbol separator.
RECURSIVE Split(_, _)
Split(s, sep) ==
    IF \A i \in 1..Len(s) : s[i] # sep
    THEN <<s>>
    ELSE LET i == CHOOSE j \in 1..Len(s) :
                      s[j] = sep /\ \A m \in 1..(j - 1) : s[m] # sep
         IN  <<SubSeq(s, 1, i - 1)>> \o Split(SubSeq(s, i + 1, Len(s)), sep)

\* ----------------------------------------------------------------- options

None == [some |-> FALSE]
Some(x) == [some |-> TRUE, val |-> x]

\* ------------------------------------------------------------ NL oracle I/O

\* What requests.post(...) can give back: it raises (timeout, transport
\* fault), answers with a status other than 200, answers 200 with a body that
\* is not the expected JSON, or answers 200 with a message content.
RaiseResponse == [kind |-> "raise", content |-> <<>>]
StatusResponse == [kind |-> "status", content |-> <<>>]
MalformedResponse == [kind |-> "malformed", content |-> <<>>]
OkResponse(text) == [kind |-> "ok", content |-> text]

\* MovementService.extract_destination, given the oracle's response.
extract_destination(resp) ==
    IF resp.kind = "ok"
    THEN LET destination == Strip(resp.content)
         IN  IF destination # <<>> THEN Some(destination) ELSE None
    ELSE None

Directions == {"N", "NE", "E", "SE", "S", "SW", "W", "NW"}

\* The literals float() is given in this model and what it makes of them.
FloatLiterals == {"1.0", "0.5", "5.0", "0", "-3", "nan", "inf", "-inf"}

FloatLiteral(t) ==
    CASE t = "1.0" -> Num(Scale)
      [] t = "0.5" -> Num(Scale \div 2)
      [] t = "5.0" -> Num(5 * Scale)
      [] t = "0" -> Num(0)
      [] t = "-3" -> Num(0 - 3 * Scale)
      [] t = "nan" -> NaN
      [] t = "inf" -> PosInf
      [] OTHER -> NegInf

\* Python's float(text): surrounding blanks are ignored; anything that is not
\* one literal is a ValueError (None here).
ParseFloat(text) ==
    LET t == Strip(text)
    IN  IF Len(t) = 1 /\ t[1] \in FloatLiterals
        THEN Some(FloatLiteral(t[1]))
        ELSE None

\* 0.1 and 2.0, the clamp of extract_movement_details, in 1/Scale.
MinDistance == 1000
MaxDistance == 20000

\* min(max(distance, 0.1), 2.0)
ClampDistance(distance) == PyMin(PyMax(distance, Num(MinDistance)), Num(MaxDistance))

\* MovementService.extract_movement_details, given the oracle's response.
\* "direction, distance = result.split(',')" raises ValueError unless there are
\* exactly two parts, and the outer handler turns that into None.
extract_movement_details(resp) ==
    IF resp.kind # "ok" THEN None
    ELSE LET result == Strip(resp.content)
             parts == Split(result, ",")
         IN  IF ~(\E i \in 1..Len(result) : result[i] = ",") THEN None
             ELSE IF Len(parts) # 2 THEN None
             ELSE LET direction == parts[1]
                      distance == ParseFloat(parts[2])
                  IN  IF ~distance.some THEN None
                      ELSE IF Len(direction) = 1 /\ direction[1] \in Directions
                      THEN Some([direction |-> direction[1],
                                 distance |-> ClampDistance(distance.val)])
                      ELSE None

\* --------------------------------------------------------- CoordinateTransform

\* A table of compass bearings (clockwise from north) in place of the
\* mathematical angles.
direction_bearings(d) ==
    CASE d = "N" -> 0
      [] d = "NE" -> 45
      [] d = "E" -> 90
      [] d = "SE" -> 135
      [] d = "S" -> 180
      [] d = "SW" -> 225
      [] d = "W" -> 270
      [] d = "NW" -> 315

direction_angles(d) ==
    CASE d = "N" -> 90
      [] d = "NE" -> 45
      [] d = "E" -> 0
      [] d = "SE" -> 315
      [] d = "S" -> 270
      [] d = "SW" -> 225
      [] d = "W" -> 180
      [] d = "NW" -> 135

\* cos and sin of a multiple of 45 degrees, in 1/Scale (0.7071 for 1/sqrt 2).
Diag == 7071

CosDeg(a) ==
    CASE a = 0 -> Scale
      [] a = 45 \/ a = 315 -> Diag
      [] a = 90 \/ a = 270 -> 0
      [] a = 135 \/ a = 225 -> 0 - Diag
      [] a = 180 -> 0 - Scale

SinDeg(a) ==
    CASE a = 0 \/ a = 180 -> 0
      [] a = 45 \/ a = 135 -> Diag
      [] a = 90 -> Scale
      [] a = 225 \/ a = 315 -> 0 - Diag
      [] a = 270 -> 0 - Scale

\* MovementService.convert_direction_to_polar
convert_direction_to_polar(direction, distance) ==
    LET theta == direction_angles(direction)
    IN  [dr |-> FScale(distance, CosDeg(theta)),
         dtheta |-> FScale(distance, SinDeg(theta))]

Position(r, theta) == [r |-> r, theta |-> theta]

Origin == Position(Num(0), Num(0))

\* ------------------------------------------------------------------- store

\* A SET on every User node: "MERGE (u:User) SET u.r, u.theta" without the id.
MergeAnyUser(us, user_id, position) == [u \in DOMAIN us |-> Some(position)]

\* MERGE (u:User {id}) SET u.r, u.theta
MergeUser(us, user_id, position) == [us EXCEPT ![user_id] = Some(position)]

\* A SET that would add the written pair to the stored one instead of
\* replacing it.
MatchSetUserAdding(us, user_id, position) ==
    IF us[user_id].some
    THEN [us EXCEPT ![user_id] =
            Some(Position(FAdd(us[user_id].val.r, position.r),
                          FAdd(us[user_id].val.theta, position.theta)))]
    ELSE us

\* MATCH (u:User {id}) SET u.r, u.theta: nothing matches an absent user.
MatchSetUser(us, user_id, position) ==
    IF us[user_id].some THEN [us EXCEPT ![user_id] = Some(position)] ELSE us

\* The rows of "MATCH (s:Scene) WHERE toLower(s.description) CONTAINS toLower($desc)".
SceneTextMatches(scs, desc) ==
    {s \in scs : Contains(ToLower(s.description), ToLower(desc))}

\* Every sequence without repetition over a finite set.
RECURSIVE Orderings(_)
Orderings(S) ==
    IF S = {} THEN {<<>>}
    ELSE UNION {{<<x>> \o t : t \in Orderings(S \ {x})} : x \in S}

Prefix(s, n) == SubSeq(s, 1, IF Len(s) < n THEN Len(s) ELSE n)

RECURSIVE SqrtSearch(_, _, _)
SqrtSearch(n, lo, hi) ==
    IF lo >= hi THEN lo
    ELSE LET mid == (lo + hi + 1) \div 2
         IN  IF mid * mid <= n THEN SqrtSearch(n, mid, hi)
             ELSE SqrtSearch(n, lo, mid - 1)

\* Floor of the square root of n, for 0 <= n < 2^31.
ISqrt(n) == SqrtSearch(n, 0, 46340)

\* A WHERE that would bound the distance itself:
\* "sqrt(power(s.r - $r, 2) + power(s.theta - $theta, 2)) <= $radius".
NearbyRowsWithinDistance(scs, position, radius) ==
    {s \in scs :
        LET dr == FSub(s.position.r, position.r)
            dt == FSub(s.position.theta, position.theta)
        IN  /\ FLe(FAbs(dr), Num(radius))
            /\ FLe(FAbs(dt), Num(radius))
            /\ dr.v * dr.v + dt.v * dt.v <= radius * radius}

\* The rows of "WHERE abs(s.r - $r) <= $radius AND abs(s.theta - $theta) <= $radius".
NearbyRows(scs, position, radius) ==
    {s \in scs :
        /\ FLe(FAbs(FSub(s.position.r, position.r)), Num(radius))
        /\ FLe(FAbs(FSub(s.position.theta, position.theta)), Num(radius))}

\* power(s.r - $r, 2) + power(s.theta - $theta, 2), in 1/Scale^2, of a row.
Distance2(s, position) ==
    LET dr == FSub(s.position.r, position.r).v
        dt == FSub(s.position.theta, position.theta).v
    IN  dr * dr + dt * dt

NearbyRecord(s, position) ==
    [id |-> s.id, description |-> s.description, position |-> s.position,
     distance |-> ISqrt(Distance2(s, position))]

\* GraphDB.find_nearby_scenes without a fault: the lists the query may give
\* (ORDER BY distance leaves the order of equal distances to the store).
find_nearby_scenes(scs, position, radius) ==
    LET rows == NearbyRows(scs, position, radius)
    IN  {[i \in 1..Len(o) |-> NearbyRecord(o[i], position)] :
            o \in {q \in Orderings(rows) :
                     \A i \in 1..Len(q) : \A j \in i..Len(q) :
                        Distance2(q[i], position) <= Distance2(q[j], position)}}

SceneRecord(s) == [id |-> s.id, description |-> s.description, position |-> s.position]

\* The default limit of find_scene_by_description.
SceneLimit == 5

\* GraphDB.find_scene_by_description without a fault: the lists the query may
\* give (no ORDER BY: the store's order, cut to the limit).
find_scene_by_description(scs, desc, limit) ==
    {[i \in 1..Len(Prefix(o, limit)) |-> SceneRecord(o[i])] :
        o \in Orderings(SceneTextMatches(scs, desc))}

\* ------------------------------------------------------------- embeddings

\* The dimension generate_embedding_768 insists on, and one a model of
\* another size would give.
EmbeddingDim == 768
OtherDim == EmbeddingDim \div 2

Vector(dim, key) == [dim |-> dim, key |-> key]

\* gds.similarity.cosine of two vectors, in hundredths.
Cosine(a, b) ==
    IF a.key = b.key THEN 100
    ELSE LET pair == {a.key, b.key}
         IN  CASE pair = {1, 2} -> 82
               [] pair = {1, 3} -> 55
               [] pair = {2, 3} -> 40
               [] pair = {1, 4} -> 60
               [] pair = {2, 4} -> 55
               [] OTHER -> 0

\* min_similarity = 0.6 of find_destination_scene, in hundredths.
MinSimilarity == 60

\* generate_embedding_768, given what model.encode did: it raised, or gave an
\* array of some dimension.
RaiseEncoding == [kind |-> "raise", vector |-> Vector(0, 0)]
OkEncoding(v) == [kind |-> "ok", vector |-> v]

generate_embedding_768(enc) ==
    IF enc.kind # "ok" THEN None
    ELSE IF enc.vector.dim # EmbeddingDim THEN None
    ELSE Some(enc.vector)

\* find_similar_descriptions without its "WHERE similarity >= $min_similarity".
SimilarRowsNoFloor(scs, query_vector, min_similarity) ==
    {s \in scs : s.description_vector.some}

\* The rows of find_similar_descriptions for label Scene.
SimilarRows(scs, query_vector, min_similarity) ==
    {s \in scs : /\ s.description_vector.some
                 /\ Cosine(s.description_vector.val, query_vector) >= min_similarity}

SimilarRecord(s, query_vector) ==
    [id |-> s.id, description |-> s.description, labels |-> <<"Scene">>,
     similarity |-> Cosine(s.description_vector.val, query_vector)]

\* GraphDB.find_similar_descriptions without a fault: the lists the query may
\* give (ORDER BY similarity DESC, LIMIT $limit).
find_similar_descriptions(scs, query_vector, limit, min_similarity) ==
    LET rows == SimilarRows(scs, query_vector, min_similarity)
    IN  {[i \in 1..Len(Prefix(o, limit)) |-> SimilarRecord(o[i], query_vector)] :
            o \in {q \in Orderings(rows) :
                     \A i \in 1..Len(q) : \A j \in i..Len(q) :
                        Cosine(q[i].description_vector.val, query_vector)
                          >= Cosine(q[j].description_vector.val, query_vector)}}

\* MovementService.find_destination_scene, given what the encoder did, whether
\* the store query raised, and the list the query gave.
find_destination_scene(enc, fault, found) ==
    LET vector == generate_embedding_768(enc)
    IN  IF ~vector.some THEN None
        ELSE IF fault THEN None
        ELSE IF found # <<>> THEN Some(found[1])
        ELSE None

\* ------------------------------------------------------------------- state

Procs == {"p1", "p2"}
UserIds == {"u1", "u2"}

\* The world the scenes are in.  s1 lies one step east of the origin; s3 has
\* no stored embedding.
InitialScenes ==
    {[node |-> 1, id |-> "s1", description |-> <<"A", "b">>,
      position |-> Position(Num(Scale), Num(0)),
      description_vector |-> Some(Vector(EmbeddingDim, 1))],
     [node |-> 2, id |-> "s2", description |-> <<"b", "c">>,
      position |-> Position(Num(Scale \div 2), Num(Scale \div 2)),
      description_vector |-> Some(Vector(EmbeddingDim, 2))],
     [node |-> 3, id |-> "s3", description |-> <<"c", "a">>,
      position |-> Position(Num(5 * Scale), Num(5 * Scale)),
      description_vector |-> None]}

\* What the destination oracle may answer with status 200.
DestinationContents ==
    {<<>>, <<" ">>, <<" ", "a", "b", " ">>, <<"B">>, <<"c", "c">>, <<"c">>}

DestinationResponses ==
    {RaiseResponse, StatusResponse, MalformedResponse}
        \cup {OkResponse(t) : t \in DestinationContents}

\* What the direction oracle may answer with status 200.
MovementContents ==
    {<<"E", ",", "1.0">>, <<" ", "NE", ",", " ", "0.5">>, <<"E", ",", "5.0">>,
     <<"W", ",", "-3">>, <<"S", ",", "0">>, <<"N", ",", "inf">>, <<"E", ",", "nan">>,
     <<"X", ",", "1.0">>, <<"e", ",", "1.0">>, <<"E", " ", ",", "1.0">>,
     <<"E", ",", "abc">>, <<"E", ",">>, <<"E">>, <<"E", ",", "1.0", ",", "0.5">>, <<>>}

MovementResponses ==
    {RaiseResponse, StatusResponse, MalformedResponse}
        \cup {OkResponse(t) : t \in MovementContents}

\* The embedding of a text (model.encode is a function of its input).
EmbeddingKey(text) ==
    CASE text = <<"a", "b">> -> 2
      [] text = <<"B">> -> 1
      [] text = <<"c", "c">> -> 3
      [] OTHER -> 4

VARIABLES
    users,      \* the store: user id -> the User node's position, or None
    scenes,     \* the store: the Scene nodes
    conn,       \* per request slot: the GraphDB driver of main.process_movement
    pc,         \* per request slot: where the request is
    req,        \* per request slot: the locals of process_movement
    calls,      \* per request slot: the store and oracle calls made, in order
    started,    \* requests started so far
    resolved,   \* the last direct call of find_destination_scene
    relations,  \* the store: the relationships store_relation_vector made
    last        \* the last direct call of a GraphDB operation

vars == <<users, scenes, conn, pc, req, calls, started, resolved, relations, last>>

NoLocals ==
    [user_id |-> "u1", stored0 |-> None, current_position |-> None,
     destination |-> None, scene |-> None, movement |-> None,
     new_position |-> None, result |-> None]

NoResolve == [called |-> FALSE]

NoLast == [called |-> FALSE]

Init ==
    /\ users = [u \in UserIds |->
                  IF u = "u1" THEN Some(Position(Num(Scale), Num(Scale \div 2)))
                  ELSE None]
    /\ scenes = InitialScenes
    /\ conn = [p \in Procs |-> "none"]
    /\ pc = [p \in Procs |-> "idle"]
    /\ req = [p \in Procs |-> NoLocals]
    /\ calls = [p \in Procs |-> <<>>]
    /\ started = 0
    /\ resolved = NoResolve
    /\ relations = {}
    /\ last = NoLast

\* --------------------------------------------------------------- results

Returned(success, message, new_position, nearby_scenes) ==
    [kind |-> "return", success |-> success, message |-> message,
     new_position |-> new_position, nearby_scenes |-> nearby_scenes]

\* An exception leaving process_movement.
Raised(what) ==
    [kind |-> "raise", success |-> FALSE, message |-> what,
     new_position |-> None, nearby_scenes |-> None]

\* A failure result that would carry the position computed so far.
FailureWithPosition(message) == Returned(FALSE, message, Some(Origin), None)

Failure(message) == Returned(FALSE, message, None, None)

Call(op, ok) == [op |-> op, ok |-> ok]

\* --------------------------------------------------------------- requests

Log(p, op, ok) == calls' = [calls EXCEPT ![p] = Append(@, Call(op, ok))]

\* The endpoint with "graph.close()" after the call instead of in a finally:
\* an exception would pass the close by.
EndsWithoutFinally(p, locals, result) ==
    /\ req' = [req EXCEPT ![p] = [locals EXCEPT !.result = Some(result)]]
    /\ pc' = [pc EXCEPT ![p] = IF result.kind = "raise" THEN "done" ELSE "close"]

\* process_movement ends (a return or an exception): main's finally is next.
Ends(p, locals, result) ==
    /\ req' = [req EXCEPT ![p] = [locals EXCEPT !.result = Some(result)]]
    /\ pc' = [pc EXCEPT ![p] = "close"]

\* get_user_position has returned current_position: lines 217-224 of
\* process_movement ("if not current_position").
Loaded(p, current_position) ==
    LET locals == [req[p] EXCEPT !.current_position = current_position]
    IN  IF ~current_position.some
        THEN Ends(p, locals, Failure("cannot determine current position"))
        ELSE /\ req' = [req EXCEPT ![p] = locals]
             /\ pc' = [pc EXCEPT ![p] = "extract_destination"]

\* POST /movement arrives: main.process_movement builds the GraphDB and the
\* MovementService and calls MovementService.process_movement.
Start(p, user_id) ==
    /\ pc[p] = "idle"
    /\ started < MaxRequests
    /\ started' = started + 1
    /\ conn' = [conn EXCEPT ![p] = "open"]
    /\ req' = [req EXCEPT ![p] = [NoLocals EXCEPT !.user_id = user_id,
                                                 !.stored0 = users[user_id]]]
    /\ calls' = [calls EXCEPT ![p] = <<>>]
    /\ pc' = [pc EXCEPT ![p] = "get_user_position"]
    /\ UNCHANGED <<users, scenes, resolved, relations, last>>

\* One request at a time.
StartAlone(p, user_id) ==
    /\ \A q \in Procs : pc[q] = "idle"
    /\ Start(p, user_id)

\* GraphDB.get_user_position, the read transaction (lines 48-54): a complete
\* record is returned; no record, or a fault of the read, leads to create_user.
GetUserPositionRead(p) ==
    /\ pc[p] = "get_user_position"
    /\ \E fault \in BOOLEAN :
        /\ Log(p, "read_position", ~fault)
        /\ IF ~fault /\ users[req[p].user_id].some
           THEN Loaded(p, Some(users[req[p].user_id].val))
           ELSE /\ pc' = [pc EXCEPT ![p] = "create_user"]
                /\ req' = req
    /\ UNCHANGED <<users, scenes, conn, started, resolved, relations, last>>

\* GraphDB.create_user: the write's fault is caught and answered with False.
create_user(us, user_id, position, fault) ==
    IF fault THEN [ok |-> FALSE, users |-> us]
    ELSE [ok |-> TRUE, users |-> MergeUser(us, user_id, position)]

\* GraphDB.get_user_position, lines 56-67: create_user at the origin, its
\* answer ignored, then "return (0.0, 0.0)".  create_user raises nothing, so
\* the "return None" of line 67 is never taken.
GetUserPositionCreate(p) ==
    /\ pc[p] = "create_user"
    /\ \E fault \in BOOLEAN :
        LET created == create_user(users, req[p].user_id, Origin, fault)
        IN  /\ users' = created.users
            /\ Log(p, "create_user", created.ok)
            /\ Loaded(p, Some(Origin))
    /\ UNCHANGED <<scenes, conn, started, resolved, relations, last>>

\* A destination phase that would ask its oracle a second time after an
\* unusable answer.
ExtractDestinationRetrying(p) ==
    /\ pc[p] = "extract_destination"
    /\ \E resp \in DestinationResponses :
        LET destination == extract_destination(resp)
            again == resp.kind # "ok"
                       /\ calls[p][Len(calls[p])].op # "extract_destination"
        IN  /\ Log(p, "extract_destination", resp.kind = "ok")
            /\ req' = [req EXCEPT ![p].destination = destination]
            /\ pc' = [pc EXCEPT ![p] =
                        IF again THEN "extract_destination"
                        ELSE IF destination.some THEN "find_scene"
                        ELSE "extract_movement"]
    /\ UNCHANGED <<users, scenes, conn, started, resolved, relations, last>>

\* process_movement, lines 227-228 and 251: the destination oracle is asked.
ExtractDestination(p) ==
    /\ pc[p] = "extract_destination"
    /\ \E resp \in DestinationResponses :
        LET destination == extract_destination(resp)
        IN  /\ Log(p, "extract_destination", resp.kind = "ok")
            /\ req' = [req EXCEPT ![p].destination = destination]
            /\ pc' = [pc EXCEPT ![p] =
                        IF destination.some THEN "find_scene" ELSE "extract_movement"]
    /\ UNCHANGED <<users, scenes, conn, started, resolved, relations, last>>

\* process_movement, lines 230-234 and 243-248: the substring query.  Its
\* fault is not caught anywhere in process_movement.
FindScene(p) ==
    /\ pc[p] = "find_scene"
    /\ \E fault \in BOOLEAN :
        /\ Log(p, "find_scene_by_description", ~fault)
        /\ IF fault
           THEN Ends(p, req[p], Raised("find_scene_by_description"))
           ELSE \E found \in find_scene_by_description(
                                scenes, req[p].destination.val, SceneLimit) :
                  IF found # <<>>
                  THEN /\ req' = [req EXCEPT ![p].scene = Some(found[1]),
                                             ![p].new_position = Some(found[1].position)]
                       /\ pc' = [pc EXCEPT ![p] = "update_destination"]
                  ELSE Ends(p, req[p], Failure("destination not found"))
    /\ UNCHANGED <<users, scenes, conn, started, resolved, relations, last>>

\* GraphDB.update_user_position: True unless the write raised.
update_user_position(us, user_id, position, fault) ==
    IF fault THEN [ok |-> FALSE, users |-> us]
    ELSE [ok |-> TRUE, users |-> MatchSetUser(us, user_id, position)]

\* process_movement, lines 235-248: the jump to the matched scene.
UpdateDestination(p) ==
    /\ pc[p] = "update_destination"
    /\ \E fault \in BOOLEAN :
        LET updated == update_user_position(
                           users, req[p].user_id, req[p].new_position.val, fault)
        IN  /\ users' = updated.users
            /\ Log(p, "update_user_position", updated.ok)
            /\ IF updated.ok
               THEN Ends(p, req[p],
                         Returned(TRUE, "arrived", req[p].new_position,
                                  Some(<<req[p].scene.val>>)))
               ELSE Ends(p, req[p], Failure("destination not found"))
    /\ UNCHANGED <<scenes, conn, started, resolved, relations, last>>

\* A directional phase whose oracle call would sit outside any try/except: a
\* transport fault or malformed JSON would leave process_movement as an
\* exception.
ExtractMovementUnguarded(p) ==
    /\ pc[p] = "extract_movement"
    /\ \E resp \in MovementResponses :
        LET movement == extract_movement_details(resp)
        IN  /\ Log(p, "extract_movement_details", resp.kind = "ok")
            /\ IF resp.kind \in {"raise", "malformed"}
               THEN Ends(p, req[p], Raised("extract_movement_details"))
               ELSE IF ~movement.some
               THEN Ends(p, req[p], Failure("command not understood"))
               ELSE LET d == convert_direction_to_polar(
                                 movement.val.direction, movement.val.distance)
                        cur == req[p].current_position.val
                        new == Position(FAdd(cur.r, d.dr), FAdd(cur.theta, d.dtheta))
                    IN  /\ req' = [req EXCEPT ![p].movement = movement,
                                              ![p].new_position = Some(new)]
                        /\ pc' = [pc EXCEPT ![p] = "update_direction"]
    /\ UNCHANGED <<users, scenes, conn, started, resolved, relations, last>>

\* process_movement, lines 251-265: the direction oracle is asked and the new
\* position computed from the position read at the start.
ExtractMovement(p) ==
    /\ pc[p] = "extract_movement"
    /\ \E resp \in MovementResponses :
        LET movement == extract_movement_details(resp)
        IN  /\ Log(p, "extract_movement_details", resp.kind = "ok")
            /\ IF ~movement.some
               THEN Ends(p, req[p], Failure("command not understood"))
               ELSE LET d == convert_direction_to_polar(
                                 movement.val.direction, movement.val.distance)
                        cur == req[p].current_position.val
                        new == Position(FAdd(cur.r, d.dr), FAdd(cur.theta, d.dtheta))
                    IN  /\ req' = [req EXCEPT ![p].movement = movement,
                                              ![p].new_position = Some(new)]
                        /\ pc' = [pc EXCEPT ![p] = "update_direction"]
    /\ UNCHANGED <<users, scenes, conn, started, resolved, relations, last>>

\* process_movement, lines 268 and 278-283.
UpdateDirection(p) ==
    /\ pc[p] = "update_direction"
    /\ \E fault \in BOOLEAN :
        LET updated == update_user_position(
                           users, req[p].user_id, req[p].new_position.val, fault)
        IN  /\ users' = updated.users
            /\ Log(p, "update_user_position", updated.ok)
            /\ IF updated.ok
               THEN /\ pc' = [pc EXCEPT ![p] = "find_nearby"]
                    /\ req' = req
               ELSE Ends(p, req[p], Failure("failed to update position"))
    /\ UNCHANGED <<scenes, conn, started, resolved, relations, last>>

\* The radius of MovementService.find_nearby_scenes, 2.0, in 1/Scale.
NearbyRadius == 20000

\* process_movement, lines 270-276: the nearby query, whose fault is not
\* caught anywhere in process_movement.
FindNearby(p) ==
    /\ pc[p] = "find_nearby"
    /\ \E fault \in BOOLEAN :
        /\ Log(p, "find_nearby_scenes", ~fault)
        /\ IF fault
           THEN Ends(p, req[p], Raised("find_nearby_scenes"))
           ELSE \E nearby \in find_nearby_scenes(
                                 scenes, req[p].new_position.val, NearbyRadius) :
                  Ends(p, req[p],
                       Returned(TRUE, "moved", req[p].new_position, Some(nearby)))
    /\ UNCHANGED <<users, scenes, conn, started, resolved, relations, last>>

\* main.process_movement, lines 137-138: "finally: graph.close()".
Close(p) ==
    /\ pc[p] = "close"
    /\ conn' = [conn EXCEPT ![p] = "closed"]
    /\ pc' = [pc EXCEPT ![p] = "done"]
    /\ UNCHANGED <<users, scenes, req, calls, started, resolved, relations, last>>

\* The response (or the fault) has gone to the client; the slot is free again.
Finish(p) ==
    /\ pc[p] = "done"
    /\ pc' = [pc EXCEPT ![p] = "idle"]
    /\ conn' = [conn EXCEPT ![p] = "none"]
    /\ req' = [req EXCEPT ![p] = NoLocals]
    /\ calls' = [calls EXCEPT ![p] = <<>>]
    /\ UNCHANGED <<users, scenes, started, resolved, relations, last>>

Next ==
    \E p \in Procs :
        \/ \E u \in UserIds : StartAlone(p, u)
        \/ GetUserPositionRead(p)
        \/ GetUserPositionCreate(p)
        \/ ExtractDestination(p)
        \/ FindScene(p)
        \/ UpdateDestination(p)
        \/ ExtractMovement(p)
        \/ UpdateDirection(p)
        \/ FindNearby(p)
        \/ Close(p)
        \/ Finish(p)

Spec == Init /\ [][Next]_vars

\* ------------------------------------------------- DestinationResolver alone

\* The texts find_destination_scene is called with.
ResolveTexts == {<<"a", "b">>, <<"B">>, <<"c", "c">>, <<"c">>}

\* What model.encode may do with a text.
Encodings(text) ==
    {RaiseEncoding,
     OkEncoding(Vector(EmbeddingDim, EmbeddingKey(text))),
     OkEncoding(Vector(OtherDim, EmbeddingKey(text)))}

\* The scene worlds of the resolver's specification: the scenes of
\* InitialScenes, each with no stored embedding or one of three.
StoredVectors == {None} \cup {Some(Vector(EmbeddingDim, k)) : k \in 1..3}

SceneWorlds ==
    {{[s EXCEPT !.description_vector = f[s.id]] : s \in InitialScenes} :
        f \in [{s.id : s \in InitialScenes} -> StoredVectors]}

InitResolve ==
    /\ users = [u \in UserIds |-> None]
    /\ scenes \in SceneWorlds
    /\ conn = [p \in Procs |-> "none"]
    /\ pc = [p \in Procs |-> "idle"]
    /\ req = [p \in Procs |-> NoLocals]
    /\ calls = [p \in Procs |-> <<>>]
    /\ started = 0
    /\ resolved = NoResolve
    /\ relations = {}
    /\ last = NoLast

\* A call of MovementService.find_destination_scene(text): the store is
\* queried only with a vector generate_embedding_768 let through.
Resolve(text) ==
    /\ \E enc \in Encodings(text), fault \in BOOLEAN :
         LET vector == generate_embedding_768(enc)
         IN  \E found \in IF vector.some /\ ~fault
                          THEN find_similar_descriptions(
                                   scenes, vector.val, 1, MinSimilarity)
                          ELSE {<<>>} :
               resolved' = [called |-> TRUE, text |-> text, enc |-> enc,
                            queried |-> vector.some, fault |-> vector.some /\ fault,
                            result |-> find_destination_scene(enc, fault, found)]
    /\ UNCHANGED <<users, scenes, conn, pc, req, calls, started, relations, last>>

NextResolve == \E text \in ResolveTexts : Resolve(text)

SpecResolve == InitResolve /\ [][NextResolve]_vars

\* ------------------------------------------------------ concurrent requests

\* What the oracles answer in the concurrent specification: no phrase or the
\* phrase "B"; no movement, "E,1.0" or "NE,0.5".
ConcDestinations == {None, Some(<<"B">>)}

ConcMovements ==
    {None, Some([direction |-> "E", distance |-> Num(Scale)]),
     Some([direction |-> "NE", distance |-> Num(Scale \div 2)])}

ConcExtractDestination(p) ==
    /\ ExtractDestination(p)
    /\ req'[p].destination \in ConcDestinations

ConcExtractMovement(p) ==
    /\ ExtractMovement(p)
    /\ req'[p].movement \in ConcMovements

\* Requests are served concurrently: a request starts whenever a slot is free.
NextConc ==
    \E p \in Procs :
        \/ \E u \in UserIds : Start(p, u)
        \/ GetUserPositionRead(p)
        \/ GetUserPositionCreate(p)
        \/ ConcExtractDestination(p)
        \/ FindScene(p)
        \/ UpdateDestination(p)
        \/ ConcExtractMovement(p)
        \/ UpdateDirection(p)
        \/ FindNearby(p)
        \/ Close(p)
        \/ Finish(p)

SpecConc == Init /\ [][NextConc]_vars

\* ------------------------------------------------------------ GraphDB alone

\* How many Scene nodes and relationships the store may hold before the
\* creating writes stop.
MaxNodes == 5
MaxRelations == 2

\* The next free node identity: nodes are never deleted.
NextNode(scs) == Cardinality(scs) + 1

\* GraphDB.create_scene: "CREATE (s:Scene {...})" makes a node whatever nodes
\* there are; the write's fault is caught and answered with False.
create_scene(scs, scene_id, description, position, fault) ==
    IF fault THEN [ok |-> FALSE, scenes |-> scs]
    ELSE [ok |-> TRUE,
          scenes |-> scs \cup {[node |-> NextNode(scs), id |-> scene_id,
                                description |-> description, position |-> position,
                                description_vector |-> None]}]

\* GraphDB.store_description_vector: "MATCH (n {id}) SET n.description_vector"
\* (with ":label" when a label is given) on every matching node, with no look
\* at the vector; True unless the write raised.
store_description_vector(scs, node_id, vector, label, fault) ==
    IF fault THEN [ok |-> FALSE, scenes |-> scs]
    ELSE [ok |-> TRUE,
          scenes |-> {IF s.id = node_id /\ (label.some => label.val = "Scene")
                      THEN [s EXCEPT !.description_vector = Some(vector)]
                      ELSE s : s \in scs}]

\* The serial number of the next store_relation_vector write that creates.
NextSerial(rels) ==
    IF rels = {} THEN 1
    ELSE 1 + CHOOSE n \in {r.serial : r \in rels} :
                 \A r \in rels : r.serial <= n

\* GraphDB.store_relation_vector: "MATCH (from {id}) MATCH (to {id})
\* CREATE (from)-[r {vector}]->(to) SET r += $properties", one relationship
\* for every pair of matching nodes; True unless the write raised.
store_relation_vector(scs, rels, from_id, to_id, relation_type, vector, properties, fault) ==
    IF fault THEN [ok |-> FALSE, relations |-> rels]
    ELSE [ok |-> TRUE,
          relations |-> rels \cup
              {[serial |-> NextSerial(rels), from |-> f.node, to |-> t.node,
                type |-> relation_type, vector |-> vector,
                properties |-> properties] :
                  f \in {s \in scs : s.id = from_id},
                  t \in {s \in scs : s.id = to_id}}]

\* The positions given to the store directly.
StorePositions == {Position(Num(2 * Scale), Num(2 * Scale))}

\* The writes issued to the store directly.
UserWrites(op) ==
    {[op |-> op, user_id |-> u, position |-> q] :
        u \in UserIds, q \in StorePositions}

SceneWrites ==
    {[op |-> "create_scene", scene_id |-> i, description |-> <<"d">>,
      position |-> Position(Num(3 * Scale), Num(3 * Scale))] : i \in {"s4"}}

VectorWrites ==
    {[op |-> "store_description_vector", node_id |-> i, vector |-> v, label |-> l] :
        i \in {"s3", "s9"},
        v \in {Vector(EmbeddingDim, 3), Vector(OtherDim, 3)},
        l \in {None, Some("Scene")}}

RelationWrites ==
    {[op |-> "store_relation_vector", from_id |-> "s1", to_id |-> t,
      relation_type |-> "NEAR", vector |-> Vector(EmbeddingDim, 1),
      properties |-> <<>>] : t \in {"s2", "s4"}}

\* The store after write w, and the answer of the write.
ApplyWrite(w, us, scs, rels, fault) ==
    CASE w.op = "update_user_position" ->
            LET r == update_user_position(us, w.user_id, w.position, fault)
            IN  [ok |-> r.ok, users |-> r.users, scenes |-> scs, relations |-> rels]
      [] w.op = "create_user" ->
            LET r == create_user(us, w.user_id, w.position, fault)
            IN  [ok |-> r.ok, users |-> r.users, scenes |-> scs, relations |-> rels]
      [] w.op = "create_scene" ->
            LET r == create_scene(scs, w.scene_id, w.description, w.position, fault)
            IN  [ok |-> r.ok, users |-> us, scenes |-> r.scenes, relations |-> rels]
      [] w.op = "store_description_vector" ->
            LET r == store_description_vector(scs, w.node_id, w.vector, w.label, fault)
            IN  [ok |-> r.ok, users |-> us, scenes |-> r.scenes, relations |-> rels]
      [] w.op = "store_relation_vector" ->
            LET r == store_relation_vector(scs, rels, w.from_id, w.to_id,
                                           w.relation_type, w.vector, w.properties, fault)
            IN  [ok |-> r.ok, users |-> us, scenes |-> scs, relations |-> r.relations]

\* The creating writes stop when the store is full.
Room(w) ==
    /\ w.op = "create_scene" => Cardinality(scenes) < MaxNodes
    /\ w.op = "store_relation_vector" => Cardinality(relations) < MaxRelations

\* Write w is issued; last keeps the write, its answer and the store it left.
Issue(w) ==
    /\ Room(w)
    /\ \E fault \in BOOLEAN :
        LET r == ApplyWrite(w, users, scenes, relations, fault)
        IN  /\ users' = r.users
            /\ scenes' = r.scenes
            /\ relations' = r.relations
            /\ last' = [called |-> TRUE, kind |-> "write", write |-> w,
                        ok |-> r.ok, times |-> 1, again |-> FALSE,
                        once |-> [users |-> r.users, scenes |-> r.scenes,
                                  relations |-> r.relations]]
    /\ UNCHANGED <<conn, pc, req, calls, started, resolved>>

StoreUpdateUserPosition == \E w \in UserWrites("update_user_position") : Issue(w)

StoreCreateUser == \E w \in UserWrites("create_user") : Issue(w)

StoreCreateScene == \E w \in SceneWrites : Issue(w)

StoreDescriptionVector == \E w \in VectorWrites : Issue(w)

StoreRelationVector == \E w \in RelationWrites : Issue(w)

\* The write just issued is issued once more, unchanged.
Reissue ==
    /\ last.called /\ last.kind = "write" /\ last.times = 1
    /\ Room(last.write)
    /\ \E fault \in BOOLEAN :
        LET r == ApplyWrite(last.write, users, scenes, relations, fault)
        IN  /\ users' = r.users
            /\ scenes' = r.scenes
            /\ relations' = r.relations
            /\ last' = [last EXCEPT !.times = 2, !.again = r.ok]
    /\ UNCHANGED <<conn, pc, req, calls, started, resolved>>

\* The vectors find_similar_descriptions is called with directly.
QueryVectors == {Vector(EmbeddingDim, 3), Vector(OtherDim, 3)}

\* A call of GraphDB.find_similar_descriptions(query_vector, "Scene", 1, 0.6),
\* the arguments find_destination_scene gives it.  Neither the query vector
\* nor the stored ones are looked at before gds.similarity.cosine; the read
\* may raise (a store fault, or the similarity function rejecting its
\* arguments).
StoreFindSimilarDescriptions(query_vector) ==
    /\ \E fault \in BOOLEAN :
        \E found \in IF fault THEN {<<>>}
                     ELSE find_similar_descriptions(
                              scenes, query_vector, 1, MinSimilarity) :
            last' = [called |-> TRUE, kind |-> "similar",
                     query_vector |-> query_vector, fault |-> fault,
                     result |-> found]
    /\ UNCHANGED <<users, scenes, relations, conn, pc, req, calls, started, resolved>>

InitStore ==
    /\ users = [u \in UserIds |->
                  IF u = "u1" THEN Some(Position(Num(Scale), Num(Scale \div 2)))
                  ELSE None]
    /\ scenes = InitialScenes
    /\ relations = {}
    /\ conn = [p \in Procs |-> "none"]
    /\ pc = [p \in Procs |-> "idle"]
    /\ req = [p \in Procs |-> NoLocals]
    /\ calls = [p \in Procs |-> <<>>]
    /\ started = 0
    /\ resolved = NoResolve
    /\ last = NoLast

NextStore ==
    \/ StoreUpdateUserPosition
    \/ StoreCreateUser
    \/ StoreCreateScene
    \/ StoreDescriptionVector
    \/ StoreRelationVector
    \/ Reissue
    \/ \E query_vector \in QueryVectors : StoreFindSimilarDescriptions(query_vector)

SpecStore == InitStore /\ [][NextStore]_vars

\* ------------------------------------------- GraphDB.find_nearby_scenes alone

\* The positions and radii find_nearby_scenes is called with directly.
QueryPositions ==
    {Origin, Position(Num(2 * Scale), Num(2 * Scale)),
     Position(Num(3 * Scale), Num(3 * Scale))}

QueryRadii == {Scale, NearbyRadius}

\* A call of GraphDB.find_nearby_scenes(position, radius): the read may raise.
StoreFindNearbyScenes(position, radius) ==
    /\ \E fault \in BOOLEAN :
        \E found \in IF fault THEN {<<>>}
                     ELSE find_nearby_scenes(scenes, position, radius) :
            last' = [called |-> TRUE, kind |-> "nearby", position |-> position,
                     radius |-> radius, fault |-> fault, result |-> found]
    /\ UNCHANGED <<users, scenes, relations, conn, pc, req, calls, started, resolved>>

\* The scene worlds the query runs on: any of the scenes of InitialScenes, of a
\* scene made by create_scene and of a second node made by the same call.
NearbyScenes ==
    InitialScenes \cup
        {[node |-> n, id |-> "s4", description |-> <<"d">>,
          position |-> Position(Num(3 * Scale), Num(3 * Scale)),
          description_vector |-> None] : n \in {4, 5}}

InitNearby ==
    /\ users = [u \in UserIds |-> None]
    /\ scenes \in SUBSET NearbyScenes
    /\ relations = {}
    /\ conn = [p \in Procs |-> "none"]
    /\ pc = [p \in Procs |-> "idle"]
    /\ req = [p \in Procs |-> NoLocals]
    /\ calls = [p \in Procs |-> <<>>]
    /\ started = 0
    /\ resolved = NoResolve
    /\ last = NoLast

NextNearby ==
    \E position \in QueryPositions, radius \in QueryRadii :
        StoreFindNearbyScenes(position, radius)

SpecNearby == InitNearby /\ [][NextNearby]_vars

\* ------------------------------------------- convert_direction_to_polar alone

\* The arguments convert_direction_to_polar is called with directly: the eight
\* directions and two strings outside them; 0.1, 0.2, ..., 2.0.
DeltaDirections == Directions \cup {"X", "e"}

DeltaDistances == {Num(k * (Scale \div 10)) : k \in 1..20}

InitDelta ==
    /\ users = [u \in UserIds |-> None]
    /\ scenes = InitialScenes
    /\ relations = {}
    /\ conn = [p \in Procs |-> "none"]
    /\ pc = [p \in Procs |-> "idle"]
    /\ req = [p \in Procs |-> NoLocals]
    /\ calls = [p \in Procs |-> <<>>]
    /\ started = 0
    /\ resolved = NoResolve
    /\ last \in {[called |-> FALSE, kind |-> "delta", direction |-> d,
                   distance |-> x] : d \in DeltaDirections, x \in DeltaDistances}

\* A call of convert_direction_to_polar(direction, distance):
\* "direction_angles[direction]" raises KeyError for a string that is not a
\* key of the table.
ConvertDirectionToPolar ==
    /\ ~last.called /\ last.kind = "delta"
    /\ last' = IF last.direction \notin Directions
               THEN [called |-> TRUE, kind |-> "delta", direction |-> last.direction,
                     distance |-> last.distance, raised |-> TRUE,
                     result |-> [dr |-> NaN, dtheta |-> NaN]]
               ELSE [called |-> TRUE, kind |-> "delta", direction |-> last.direction,
                     distance |-> last.distance, raised |-> FALSE,
                     result |-> convert_direction_to_polar(
                                    last.direction, last.distance)]
    /\ UNCHANGED <<users, scenes, relations, conn, pc, req, calls, started, resolved>>

NextDelta == ConvertDirectionToPolar

SpecDelta == InitDelta /\ [][NextDelta]_vars

\* ------------------------------------------------------------------ claims

Done(p) == pc[p] = "done"

Result(p) == req[p].result.val

Succeeded(p) == Result(p).kind = "return" /\ Result(p).success

HasCall(p, op) == \E i \in 1..Len(calls[p]) : calls[p][i].op = op

Faulted(p, op) == \E i \in 1..Len(calls[p]) : calls[p][i] = Call(op, FALSE)

Stored(p) == users[req[p].user_id]

\* The position the user had when the request came in is still the stored one.
PositionKept(p) == req[p].stored0.some => Stored(p) = req[p].stored0

\* C1: a request for a user with a stored position p that does not return
\* success=true (a failure result or a fault) leaves p stored.
C1_OnlySuccessMutatesPosition ==
    \A p \in Procs :
        (Done(p) /\ req[p].stored0.some /\ ~Succeeded(p))
            => Stored(p) = req[p].stored0

\* C2: when the store is unreachable at the load step (the position read
\* faults, and so does the provisioning write that follows it), the request
\* ends with the failure "cannot determine current position", new_position
\* null, no oracle is called and no position write is attempted.
C2_UnreachableStoreEndsAtLoad ==
    \A p \in Procs :
        (Done(p) /\ Faulted(p, "read_position") /\ Faulted(p, "create_user"))
            => /\ Result(p) = Failure("cannot determine current position")
               /\ ~HasCall(p, "extract_destination")
               /\ ~HasCall(p, "extract_movement_details")
               /\ ~HasCall(p, "update_user_position")

StoreOps ==
    {"read_position", "update_user_position",
     "find_scene_by_description", "find_nearby_scenes"}

\* C3: a request in which a store operation (position read, position write,
\* findSceneByText, findNearbyScenes) faulted returns a result with
\* success=false instead of raising, and a request that did not report
\* success leaves no position change behind.
C3_StoreFaultIsStructuredFailure ==
    \A p \in Procs :
        Done(p) =>
            /\ (\E op \in StoreOps : Faulted(p, op))
                  => (Result(p).kind = "return" /\ ~Result(p).success)
            /\ ~Succeeded(p) => PositionKept(p)

\* C4: a request whose destination extraction gave a non-empty phrase never
\* calls the direction oracle and ends in the destination success or in the
\* failure "destination not found".
C4_NoFallThroughToDirection ==
    \A p \in Procs :
        (Done(p) /\ req[p].destination.some)
            => /\ ~HasCall(p, "extract_movement_details")
               /\ \/ (Succeeded(p) /\ Result(p).message = "arrived")
                  \/ Result(p) = Failure("destination not found")

\* The scenes DestinationResolver.resolve may give for a text when the
\* embedding oracle and the store work: the best of those at or above the floor.
ResolverHits(scs, text) ==
    LET q == Vector(EmbeddingDim, EmbeddingKey(text))
        rows == {s \in scs : /\ s.description_vector.some
                             /\ Cosine(s.description_vector.val, q) >= MinSimilarity}
    IN  {s \in rows : \A t \in rows :
            Cosine(s.description_vector.val, q) >= Cosine(t.description_vector.val, q)}

\* C5: process_movement never jumps to a scene chosen by substring match
\* while a scene meeting the similarity floor exists: the scene of a
\* destination success is the resolver's (semantic) hit whenever there is one.
C5_SemanticMatchFirst ==
    \A p \in Procs :
        (Done(p) /\ Succeeded(p) /\ Result(p).message = "arrived")
            => LET hits == ResolverHits(scenes, req[p].destination.val)
               IN  hits # {} => req[p].scene.val.id \in {s.id : s \in hits}

\* The stored embeddings of Scene nodes and their similarity to the vector the
\* encoder gave in the last call of find_destination_scene.
Embedded == {s \in scenes : s.description_vector.some}

SimilarityTo(s) == Cosine(s.description_vector.val, resolved.enc.vector)

\* C6: find_destination_scene returns a scene only when the encoder gave a
\* 768-dimension vector, the store query did not fault, and the scene is a
\* Scene node of highest similarity, that similarity being at least 0.6; on
\* an encoder failure, a vector of another dimension, a store fault or a best
\* similarity below 0.6 it returns none.
C6_ResolverReturnsBestAboveFloor ==
    resolved.called =>
        LET usable == /\ resolved.enc.kind = "ok"
                      /\ resolved.enc.vector.dim = 768
                      /\ ~resolved.fault
                      /\ \E s \in Embedded : SimilarityTo(s) >= 60
        IN  /\ usable <=> resolved.result.some
            /\ resolved.result.some =>
                  \E s \in Embedded :
                      /\ s.id = resolved.result.val.id
                      /\ resolved.result.val.similarity = SimilarityTo(s)
                      /\ SimilarityTo(s) >= 60
                      /\ \A t \in Embedded : SimilarityTo(t) <= SimilarityTo(s)

\* C6's case: the encoder and the store worked and the best stored
\* similarity is 0.55, under the floor; none is returned.
C6_Witness ==
    /\ resolved.called
    /\ resolved.enc.kind = "ok" /\ resolved.enc.vector.dim = 768
    /\ resolved.queried /\ ~resolved.fault
    /\ \E s \in Embedded : SimilarityTo(s) = 55
    /\ \A s \in Embedded : SimilarityTo(s) <= 55
    /\ resolved.result = None

\* C7: when the destination phrase matched a scene S and the position write
\* went through, the user's stored position is S's position and the result is
\* success=true with new_position S's position and nearby_scenes [S]; no
\* findNearbyScenes query is made.
C7_DestinationHitMovesUser ==
    \A p \in Procs :
        (Done(p) /\ req[p].scene.some /\ ~Faulted(p, "update_user_position"))
            => /\ Stored(p) = Some(req[p].scene.val.position)
               /\ Result(p) = Returned(TRUE, "arrived",
                                       Some(req[p].scene.val.position),
                                       Some(<<req[p].scene.val>>))
               /\ ~HasCall(p, "find_nearby_scenes")

\* The substring query ran and matched nothing.
DestinationMissed(p) ==
    /\ req[p].destination.some
    /\ calls[p][Len(calls[p])] = Call("find_scene_by_description", TRUE)
    /\ ~req[p].scene.some

\* C8: a request whose non-empty destination phrase matched no scene returns
\* the failure "destination not found" (new_position and nearby_scenes null),
\* issues no position write, and leaves the stored position unchanged.
C8_DestinationMissKeepsPosition ==
    \A p \in Procs :
        (Done(p) /\ DestinationMissed(p))
            => /\ Result(p) = Failure("destination not found")
               /\ ~HasCall(p, "update_user_position")
               /\ PositionKept(p)

\* The direction oracle was asked and its output rejected.
DirectionRejected(p) ==
    /\ ~req[p].destination.some
    /\ HasCall(p, "extract_movement_details")
    /\ ~req[p].movement.some

\* C9: a request with no destination phrase whose direction oracle output is
\* rejected returns {success: false, "command not understood", new_position
\* null}, issues no position write, and leaves the stored position unchanged.
C9_RejectedDirectionKeepsPosition ==
    \A p \in Procs :
        (Done(p) /\ DirectionRejected(p))
            => /\ Result(p) = Failure("command not understood")
               /\ ~HasCall(p, "update_user_position")
               /\ PositionKept(p)

\* C10: every (direction, distance) the DirectionResolver returns has
\* 0.1 <= distance <= 2.0.
C10_DistanceAlwaysClamped ==
    \A p \in Procs :
        req[p].movement.some
            => /\ FLe(Num(MinDistance), req[p].movement.val.distance)
               /\ FLe(req[p].movement.val.distance, Num(MaxDistance))

\* The directional phase computed a new position and its write did not fault.
DirectionPersisted(p) ==
    /\ ~req[p].destination.some
    /\ req[p].movement.some
    /\ ~Faulted(p, "update_user_position")

\* toDelta applied to the position read at the start of the request.
DirectionTarget(p) ==
    LET cur == req[p].current_position.val
        d == convert_direction_to_polar(
                 req[p].movement.val.direction, req[p].movement.val.distance)
    IN  Position(FAdd(cur.r, d.dr), FAdd(cur.theta, d.dtheta))

\* C11: when no destination phrase was found, the DirectionResolver returned
\* (direction, distance) and the write went through, the stored position is
\* new = (r + dr, theta + dtheta), findNearbyScenes was queried around new
\* with radius 2.0, and the result is success=true with new_position = new
\* and the nearby list (possibly empty).
C11_DirectionalSuccess ==
    \A p \in Procs :
        (Done(p) /\ DirectionPersisted(p))
            => /\ Stored(p) = Some(DirectionTarget(p))
               /\ HasCall(p, "find_nearby_scenes")
               /\ \E nearby \in find_nearby_scenes(scenes, DirectionTarget(p), 20000) :
                     Result(p) = Returned(TRUE, "moved", Some(DirectionTarget(p)),
                                          Some(nearby))

\* The directional phase computed a new position and its write faulted.
DirectionWriteFailed(p) ==
    /\ ~req[p].destination.some
    /\ req[p].movement.some
    /\ Faulted(p, "update_user_position")

\* C12: when persisting the new position of the directional phase fails, the
\* request ends with the failure "failed to update position" (success=false,
\* new_position and nearby_scenes null), findNearbyScenes is not queried, and
\* the stored position is the one read at the start of the request.
C12_FailedWriteKeepsReadPosition ==
    \A p \in Procs :
        (Done(p) /\ DirectionWriteFailed(p))
            => /\ Result(p) = Failure("failed to update position")
               /\ ~HasCall(p, "find_nearby_scenes")
               /\ Stored(p) = req[p].current_position

\* update_user_position has just returned True in request p.
JustUpdated(p) ==
    /\ calls[p] # <<>>
    /\ calls[p][Len(calls[p])] = Call("update_user_position", TRUE)

\* C13: whenever update_user_position(userId, pos) returns true the store
\* holds pos for userId right afterwards (no other request in flight), also
\* when no User record existed before; hence after a result success=true
\* with new_position p the stored position, which a following getPosition
\* reads, is p.
C13_TrueMeansStored ==
    \A p \in Procs :
        /\ JustUpdated(p) => Stored(p) = req[p].new_position
        /\ (Done(p) /\ Succeeded(p)) => Stored(p) = Result(p).new_position

\* The step is a position write of request p that went through: create_user
\* at the origin or update_user_position at new_position.
WriteStep(p) ==
    \/ /\ pc[p] = "create_user"
       /\ calls'[p] = Append(calls[p], Call("create_user", TRUE))
    \/ /\ pc[p] \in {"update_destination", "update_direction"}
       /\ calls'[p] = Append(calls[p], Call("update_user_position", TRUE))

WrittenValue(p) ==
    IF pc[p] = "create_user" THEN Origin ELSE req[p].new_position.val

\* C14 (every interleaving): the stored position of a user changes only in a
\* position write that went through, and after every such write on a stored
\* user the stored position is exactly the value of that write; so at any
\* time, and at the end, the stored position is the value of the last write.
C14_LastWriteWins ==
    [][\A u \in UserIds :
          /\ users'[u] # users[u]
                => \E p \in Procs : /\ req[p].user_id = u
                                    /\ WriteStep(p)
                                    /\ users'[u] = Some(WrittenValue(p))
          /\ \A p \in Procs :
                (req[p].user_id = u /\ users[u].some /\ WriteStep(p))
                    => users'[u] = Some(WrittenValue(p))]_vars

\* The sum of what two directional requests meant to add to position pos.
BothDeltas(pos, p, q) ==
    LET dp == convert_direction_to_polar(
                  req[p].movement.val.direction, req[p].movement.val.distance)
        dq == convert_direction_to_polar(
                  req[q].movement.val.direction, req[q].movement.val.distance)
    IN  Position(FAdd(FAdd(pos.r, dp.dr), dq.dr),
                 FAdd(FAdd(pos.theta, dp.dtheta), dq.dtheta))

\* C14 (some interleaving): two directional requests for the same user both
\* read the stored position pos, both report success, and the stored position
\* is pos + d of one of them, not pos + d1 + d2: one update is lost.
C14_LostUpdate ==
    \E p, q \in Procs :
        /\ p # q /\ Done(p) /\ Done(q)
        /\ req[p].user_id = req[q].user_id
        /\ req[p].stored0.some
        /\ req[p].current_position = req[p].stored0
        /\ req[q].current_position = req[p].stored0
        /\ DirectionPersisted(p) /\ DirectionPersisted(q)
        /\ Succeeded(p) /\ Succeeded(q)
        /\ Stored(p) = Some(DirectionTarget(p))
        /\ Stored(p) # Some(BothDeltas(req[p].stored0.val, p, q))

\* C15: the connection a /movement request acquired is open while
\* process_movement runs and closed when the request ends, whether
\* process_movement returned success, returned a failure or raised; it is
\* closed once, by the endpoint's finally, and no slot without a request
\* holds a connection.
C15_ConnectionReleased ==
    /\ [](\A p \in Procs :
            /\ Done(p) => conn[p] = "closed"
            /\ pc[p] = "idle" => conn[p] = "none"
            /\ pc[p] \notin {"idle", "done"} => conn[p] = "open")
    /\ [][\A p \in Procs :
            (conn'[p] = "closed" /\ conn[p] # "closed")
                => (conn[p] = "open" /\ pc[p] = "close" /\ pc'[p] = "done")]_vars

\* C15's case: process_movement raised and the connection is closed.
C15_ClosedAfterFault ==
    \E p \in Procs :
        Done(p) /\ Result(p).kind = "raise" /\ conn[p] = "closed"

\* How often request p has called op so far.
Count(p, op) == Cardinality({i \in 1..Len(calls[p]) : calls[p][i].op = op})

\* C16: within one process_movement call the destination oracle is called at
\* most once, the direction oracle at most once and only after the
\* destination extraction has returned, and the embedding oracle at most
\* once, whatever the oracles answered.
C16_NoOracleRetry ==
    \A p \in Procs :
        /\ Count(p, "extract_destination") <= 1
        /\ Count(p, "extract_movement_details") <= 1
        /\ Count(p, "generate_embedding_768") <= 1
        /\ \A i \in 1..Len(calls[p]) :
              calls[p][i].op = "extract_movement_details"
                  => \E j \in 1..(i - 1) : calls[p][j].op = "extract_destination"

\* C16's case: both oracles failed in one request and each was asked once.
C16_BothOraclesFailedOnce ==
    \E p \in Procs :
        /\ Done(p)
        /\ Faulted(p, "extract_destination")
        /\ Faulted(p, "extract_movement_details")
        /\ Count(p, "extract_destination") = 1
        /\ Count(p, "extract_movement_details") = 1

\* C17: an oracle that raised, timed out, answered non-200 or answered
\* malformed data never ends the request with an exception.  After such an
\* answer of the destination oracle there is no phrase, no scene query, and
\* the request goes on to the direction oracle; after such an answer of the
\* direction oracle the request ends with "command not understood".  A
\* request raises only out of a faulted store call.
C17_OracleFailureNotFatal ==
    \A p \in Procs :
        /\ Faulted(p, "extract_destination")
              => /\ ~req[p].destination.some
                 /\ ~HasCall(p, "find_scene_by_description")
                 /\ pc[p] \in {"extract_movement", "update_direction",
                               "find_nearby", "close", "done"}
                 /\ pc[p] # "extract_movement"
                       => HasCall(p, "extract_movement_details")
        /\ (Faulted(p, "extract_movement_details") /\ pc[p] \in {"close", "done"})
              => Result(p) = Failure("command not understood")
        /\ (req[p].result.some /\ Result(p).kind = "raise")
              => calls[p][Len(calls[p])] \in
                    {Call("find_scene_by_description", FALSE),
                     Call("find_nearby_scenes", FALSE)}

\* C17's case: the destination oracle failed and the request went through the
\* directional phase to a move.
C17_DirectionalAfterFailedOracle ==
    \E p \in Procs :
        /\ Done(p)
        /\ Faulted(p, "extract_destination")
        /\ req[p].movement.some
        /\ Succeeded(p) /\ Result(p).message = "moved"

\* get_user_position has just returned in request p.
JustLoaded(p) == pc[p] = "extract_destination"

\* C18: getPosition for a user with no stored position creates the user at
\* (0,0) and returns (0,0); for a user with a stored position (one created by
\* an earlier getPosition included) it returns that position and writes
\* nothing.
C18_Provisioning ==
    \A p \in Procs :
        JustLoaded(p) =>
            /\ ~req[p].stored0.some
                  => /\ req[p].current_position = Some(Origin)
                     /\ Stored(p) = Some(Origin)
            /\ req[p].stored0.some
                  => /\ req[p].current_position = req[p].stored0
                     /\ Stored(p) = req[p].stored0
                     /\ ~HasCall(p, "create_user")

\* The same write was issued twice in a row and went through both times.
IssuedTwice ==
    /\ last.called /\ last.kind = "write"
    /\ last.times = 2 /\ last.ok /\ last.again

\* C19: for every write operation of the store (update_user_position,
\* create_user, store_description_vector, store_relation_vector,
\* create_scene), issuing the same write twice in a row leaves the store as
\* issuing it once left it.
C19_WritesIdempotent ==
    IssuedTwice =>
        [users |-> users, scenes |-> scenes, relations |-> relations] = last.once

\* The scenes of the store within radius of the queried position on each axis,
\* and what the query is to report of a scene.
WithinBox(s) ==
    LET dr == s.position.r.v - last.position.r.v
        dt == s.position.theta.v - last.position.theta.v
    IN  /\ -last.radius <= dr /\ dr <= last.radius
        /\ -last.radius <= dt /\ dt <= last.radius

Reported(s) ==
    LET dr == s.position.r.v - last.position.r.v
        dt == s.position.theta.v - last.position.theta.v
    IN  [id |-> s.id, description |-> s.description, position |-> s.position,
         distance |-> ISqrt(dr * dr + dt * dt)]

Answered == last.called /\ last.kind = "nearby" /\ ~last.fault

\* C20: find_nearby_scenes(pos, radius) returns exactly the scenes whose r and
\* whose theta each differ from pos by at most radius, every such node once
\* and no other, each with distance sqrt(dr^2 + dtheta^2), in order of
\* non-decreasing distance.
C20_NearbyExactAndOrdered ==
    Answered =>
        LET found == last.result
            inside == {s \in scenes : WithinBox(s)}
        IN  /\ Len(found) = Cardinality(inside)
            /\ \A s \in inside :
                  Cardinality({i \in 1..Len(found) : found[i] = Reported(s)})
                      = Cardinality({t \in inside : Reported(t) = Reported(s)})
            /\ \A i \in 1..Len(found) : \E s \in inside : found[i] = Reported(s)
            /\ \A i \in 1..Len(found) : \A j \in i..Len(found) :
                  found[i].distance <= found[j].distance

\* C20's case: the query returned several scenes, one of them farther away
\* than radius (inside the box, outside the circle), and left one out.
C20_BoxNotCircle ==
    /\ Answered
    /\ Len(last.result) >= 2
    /\ \E i \in 1..Len(last.result) : last.result[i].distance > last.radius
    /\ \E s \in scenes : ~WithinBox(s)

\* The Scene nodes a similarity result of the last query was computed from.
Compared ==
    {s \in scenes : \E i \in 1..Len(last.result) : last.result[i].id = s.id}

\* C21: every vector in a similarity comparison has length 768.
\* store_description_vector does not accept a vector of another length, so no
\* node ever carries one; find_similar_descriptions given a query vector of
\* another length fails (raises) instead of answering, and its results are
\* computed only from stored vectors of length 768.
C21_Only768InSimilarity ==
    /\ \A s \in scenes :
          s.description_vector.some => s.description_vector.val.dim = 768
    /\ (last.called /\ last.kind = "write"
          /\ last.write.op = "store_description_vector"
          /\ last.write.vector.dim # 768) => ~last.ok
    /\ (last.called /\ last.kind = "similar")
          => /\ last.query_vector.dim # 768 => last.fault
             /\ \A s \in Compared :
                   s.description_vector.some
                       => s.description_vector.val.dim = 768

\* cos and sin of the angle the specification gives a direction (E=0, NE=45,
\* N=90, NW=135, W=180, SW=225, S=270, SE=315 degrees), in 1/10000.
AngleCos(d) ==
    CASE d = "E" -> 10000
      [] d \in {"NE", "SE"} -> 7071
      [] d \in {"N", "S"} -> 0
      [] d \in {"NW", "SW"} -> -7071
      [] d = "W" -> -10000

AngleSin(d) ==
    CASE d = "N" -> 10000
      [] d \in {"NE", "NW"} -> 7071
      [] d \in {"E", "W"} -> 0
      [] d \in {"SE", "SW"} -> -7071
      [] d = "S" -> -10000

\* a and b, both in 1/10000^2, differ by less than 0.0001.
Close4(a, b) == a - b < 10000 /\ b - a < 10000

\* C22: for each of the eight directions d and each distance x in [0.1, 2.0],
\* toDelta(d, x) = (x*cos(angle(d)), x*sin(angle(d))) (to 0.0001), and a
\* direction outside the eight is rejected, not mapped to an angle.
C22_DeltaTable ==
    (last.called /\ last.kind = "delta") =>
        IF last.direction \in {"N", "NE", "E", "SE", "S", "SW", "W", "NW"}
        THEN /\ ~last.raised
             /\ last.result.dr.k = "num" /\ last.result.dtheta.k = "num"
             /\ Close4(last.result.dr.v * 10000,
                       last.distance.v * AngleCos(last.direction))
             /\ Close4(last.result.dtheta.v * 10000,
                       last.distance.v * AngleSin(last.direction))
        ELSE last.raised

\* C22's case: NE with 0.5 gives (0.3536, 0.3536).
C22_NorthEastHalf ==
    /\ last.called /\ last.kind = "delta"
    /\ last.direction = "NE" /\ last.distance = Num(5000)
    /\ last.result = [dr |-> Num(3536), dtheta |-> Num(3536)]

\* The position a user with no stored position starts from.
InitialPosition(p) ==
    IF req[p].stored0.some THEN req[p].stored0.val ELSE Origin

\* What the directional request p adds.
DirectionDelta(p) ==
    convert_direction_to_polar(
        req[p].movement.val.direction, req[p].movement.val.distance)

\* C23: every successful directional move (one request at a time) leaves
\* stored exactly the position stored before it plus its delta, component by
\* component, with no wrapping of theta and no clamping of r; so after any
\* sequence of such moves the stored position is the initial one plus the sum
\* of the deltas.
C23_NoNormalization ==
    \A p \in Procs :
        (Done(p) /\ Succeeded(p) /\ DirectionPersisted(p))
            => Stored(p) =
                  Some(Position(
                      FAdd(InitialPosition(p).r, DirectionDelta(p).dr),
                      FAdd(InitialPosition(p).theta, DirectionDelta(p).dtheta)))

\* C24: a step of a movement request for user A, whatever the request's
\* outcome, leaves the stored position of every other user and every scene
\* (id, description, position) as they were and deletes no User or Scene
\* record: the stored users and scenes only grow.
C24_OtherUsersAndScenesUntouched ==
    [][\A p \in Procs :
          pc'[p] # pc[p]
              => /\ \A u \in UserIds :
                       u # req'[p].user_id => users'[u] = users[u]
                 /\ \A u \in UserIds : users[u].some => users'[u].some
                 /\ \A s \in scenes :
                       \E t \in scenes' : /\ t.node = s.node /\ t.id = s.id
                                          /\ t.description = s.description
                                          /\ t.position = s.position]_vars

\* C24's case: two requests in flight together for different users have both
\* moved their own user, each stored position being its own request's.
C24_TwoUsersMoved ==
    \E p, q \in Procs :
        /\ Done(p) /\ Done(q)
        /\ req[p].user_id # req[q].user_id
        /\ Succeeded(p) /\ Succeeded(q)
        /\ Stored(p) = Result(p).new_position
        /\ Stored(q) = Result(q).new_position
        /\ Stored(p) # Stored(q)

\* Request q has persisted a move: its user had a User node (stored from the
\* start, or provisioned by q itself) when its update_user_position went
\* through.
Persisted(q) ==
    /\ \E i \in 1..Len(calls[q]) : calls[q][i] = Call("update_user_position", TRUE)
    /\ \/ req[q].stored0.some
       \/ \E i \in 1..Len(calls[q]) : calls[q][i] = Call("create_user", TRUE)

\* Request p has just provisioned its user: get_user_position returned after
\* a create_user write that went through.
JustProvisioned(p) ==
    /\ JustLoaded(p)
    /\ calls[p][Len(calls[p])] = Call("create_user", TRUE)

\* C25: in every interleaving of two requests for the same user, the position
\* one request's move has persisted is not reset to (0,0) by the other
\* request's provisioning write: right after that write the stored position is
\* still the persisted one.
C25_ProvisioningNeverResets ==
    \A p, q \in Procs :
        (p # q /\ req[p].user_id = req[q].user_id
           /\ Persisted(q) /\ JustProvisioned(p))
            => Stored(p) = req[q].new_position

\* C26: a result "destination not found" means that no scene matched the
\* phrase; a request that matched a scene and whose position write failed
\* ends with a failure that is not "destination not found".
C26_NotFoundMeansNoMatch ==
    \A p \in Procs :
        Done(p) =>
            /\ Result(p) = Failure("destination not found") => ~req[p].scene.some
            /\ (req[p].scene.some /\ Faulted(p, "update_user_position"))
                  => /\ Result(p).kind = "return" /\ ~Result(p).success
                     /\ Result(p).message # "destination not found"

\* C27: every result process_movement returns has a consistent shape:
\* success=false comes with new_position null and nearby_scenes null;
\* success=true comes with new_position the value passed to the request's
\* one position write and nearby_scenes a list (possibly empty); and a request
\* issues at most one position write besides provisioning.
C27_ResultShape ==
    \A p \in Procs :
        /\ Count(p, "update_user_position") <= 1
        /\ (req[p].result.some /\ Result(p).kind = "return")
              => /\ ~Result(p).success
                       => /\ Result(p).new_position = None
                          /\ Result(p).nearby_scenes = None
                 /\ Result(p).success
                       => /\ Count(p, "update_user_position") = 1
                          /\ ~Faulted(p, "update_user_position")
                          /\ Result(p).new_position.some
                          /\ Result(p).new_position = req[p].new_position
                          /\ Result(p).nearby_scenes.some

\* C27's case: a success whose nearby list is empty.
C27_SuccessWithEmptyList ==
    \E p \in Procs :
        /\ Done(p) /\ Succeeded(p)
        /\ Result(p).nearby_scenes = Some(<<>>)
        /\ Result(p).new_position.some
        /\ Result(p).new_position.val.r.k = "num"
        /\ Result(p).new_position.val.theta.k = "num"

====
